---- MODULE Spec2Model ----
(***************************************************************************)
(* Model of tikv_util::sys (quota probe, memory-pressure monitor) and of   *)
(* engine_rocks::config (the serde codecs of the RocksDB enumerations).    *)
(*                                                                         *)
(* Specifications:                                                         *)
(*   Spec      the memory-pressure monitor, every call one atomic step     *)
(*   SpecConc  the monitor with memory_usage_reaches_high_water split at   *)
(*             its two atomic loads, interleaved with the writers          *)
(*   SpecCodec one encode or decode call, or a round trip of the two, of   *)
(*             the scalar codecs on an input drawn by Init                 *)
(*   SpecConfigValue the conversions of BlobRunMode into and out of a      *)
(*             ConfigValue, and from_str, on an input drawn by Init        *)
(*   SpecLadder the same for the codec of the per-level compression array  *)
(*   SpecQuota the quota probe called in an environment drawn by Init      *)
(*   SpecThread set_priority and get_priority called by one thread in an   *)
(*             environment drawn by Init                                   *)
(***************************************************************************)
EXTENDS Integers, Sequences, FiniteSets, TLC

(***************************************************************************)
(* Bounds.                                                                 *)
(***************************************************************************)
\* A u64 is modelled as an unsigned word of U64Bits bits: the monitor only
\* stores, loads and compares these words, so only their order and their
\* largest value matter.
U64Bits == 2

U64_MAX == 2 ^ U64Bits - 1
U64 == 0 .. U64_MAX

\* Integers of a configuration document: -MaxIntInput .. MaxIntInput.
MaxIntInput == 7

\* Whitespace characters written before and after a name: 0 .. MaxPad each.
MaxPad == 1

\* The longest sequence given to the compression-ladder decoder.
MaxLadderLen == 8

\* How many different compression names one ladder input uses.
LadderAlphabet == 2

\* The most logical cores the host reports.
MaxCpus == 3

\* The most memory the host reports, in KiB.
MaxMemKib == 3

\* How far beyond the ends of the niceness range a requested priority goes.
MaxOver == 1

\* The threads that call memory_usage_reaches_high_water.
Readers == {"r1", "r2"}

(***************************************************************************)
(* State.                                                                  *)
(***************************************************************************)
VARIABLES
    GLOBAL_MEMORY_USAGE,      \* static AtomicU64, sys/mod.rs:20
    MEMORY_USAGE_HIGH_WATER,  \* static AtomicU64, sys/mod.rs:21
    fp_active,                \* fail point "memory_usage_reaches_high_water" configured
    pc,                       \* per reader: position in memory_usage_reaches_high_water
    usage_out,                \* per reader: the caller's variable behind `usage: &mut u64`,
                              \* which keeps its value from one call to the next
    ret,                      \* per reader: the value the last call returned
    via_fp,                   \* per reader: the last call returned from the fail point
    compared,                 \* per reader: left operand of the >= of line 118
    mark_loaded,              \* per reader: the mark the call loaded on line 118
    last_recorded,            \* history: argument of the latest record call
    last_registered,          \* history: argument of the latest register call
    last_op,                  \* history: the reader whose check is the latest completed
                              \* call, "write" when the latest call was not a check
    c_enum,                   \* codec: the enumeration the call is for
    c_origin,                 \* codec: "doc" (decode first) or "val" (encode first)
    c_doc0,                   \* codec: the document value given
    c_val0,                   \* codec: the variant given
    c_doc,                    \* codec: the current document value
    c_val,                    \* codec: the result of the latest decode
    c_steps,                  \* codec: calls made so far
    l_origin,                 \* ladder: "doc" (decode first) or "val" (encode first)
    l_in,                     \* ladder: the sequence of strings given
    l_arr0,                   \* ladder: the array of variants given
    l_doc,                    \* ladder: the current sequence of strings
    l_res,                    \* ladder: the result of the latest decode
    l_steps,                  \* ladder: calls made so far
    q_env,                    \* quota: the environment the probe reads
    q_cpu,                    \* quota: what cpu_cores_quota returned
    q_mem,                    \* quota: what memory_limit_in_bytes returned
    q_done,                   \* quota: the probes called so far
    th_env,                   \* thread: the build and the privileges of the process
    th_nice,                  \* thread: the niceness the kernel holds for the thread
    th_errno,                 \* thread: the thread's errno
    th_hist,                  \* thread: the latest two calls and their results
    th_set_called             \* thread: set_priority has been called

memVars == <<GLOBAL_MEMORY_USAGE, MEMORY_USAGE_HIGH_WATER, fp_active, pc,
             usage_out, ret, via_fp, compared, mark_loaded,
             last_recorded, last_registered, last_op>>

codecVars == <<c_enum, c_origin, c_doc0, c_val0, c_doc, c_val, c_steps>>

ladderVars == <<l_origin, l_in, l_arr0, l_doc, l_res, l_steps>>

quotaVars == <<q_env, q_cpu, q_mem, q_done>>

threadVars == <<th_env, th_nice, th_errno, th_hist, th_set_called>>

vars == <<memVars, codecVars, ladderVars, quotaVars, threadVars>>

(***************************************************************************)
(* The memory-pressure monitor (sys/mod.rs:20-21, 91-119).                 *)
(***************************************************************************)
MemInit ==
    /\ GLOBAL_MEMORY_USAGE = 0
    /\ MEMORY_USAGE_HIGH_WATER = U64_MAX
    /\ fp_active = FALSE
    /\ pc = [t \in Readers |-> "idle"]
    /\ usage_out = [t \in Readers |-> 0]
    /\ ret = [t \in Readers |-> FALSE]
    /\ via_fp = [t \in Readers |-> FALSE]
    /\ compared = [t \in Readers |-> 0]
    /\ mark_loaded = [t \in Readers |-> 0]
    /\ last_recorded = 0
    /\ last_registered = U64_MAX
    /\ last_op = "write"

\* GLOBAL_MEMORY_USAGE.load(Ordering::Acquire)
get_global_memory_usage == GLOBAL_MEMORY_USAGE

\* The value record_global_memory_usage stores: resident pages * page size on
\* Linux (any u64 the process can observe), always 0 elsewhere.
RecordedValues == U64

\* GLOBAL_MEMORY_USAGE.store(usage as u64, Ordering::Release)
record_global_memory_usage(v) ==
    /\ GLOBAL_MEMORY_USAGE' = v
    /\ last_recorded' = v
    /\ last_op' = "write"
    /\ UNCHANGED <<MEMORY_USAGE_HIGH_WATER, fp_active, pc, usage_out, ret,
                   via_fp, compared, mark_loaded, last_registered>>

\* MEMORY_USAGE_HIGH_WATER.store(mark, Ordering::Release)
register_memory_usage_high_water(mark) ==
    /\ MEMORY_USAGE_HIGH_WATER' = mark
    /\ last_registered' = mark
    /\ last_op' = "write"
    /\ UNCHANGED <<GLOBAL_MEMORY_USAGE, fp_active, pc, usage_out, ret, via_fp,
                   compared, mark_loaded, last_recorded>>

\* fail::cfg("memory_usage_reaches_high_water", "return") / fail::remove(..):
\* the hook of line 116 is switched on or off from outside.
FailPointCfg ==
    /\ fp_active' = ~fp_active
    /\ last_op' = "write"
    /\ UNCHANGED <<GLOBAL_MEMORY_USAGE, MEMORY_USAGE_HIGH_WATER, pc, usage_out,
                   ret, via_fp, compared, mark_loaded, last_recorded,
                   last_registered>>

\* A comparison that loads the counter a second time instead of using the
\* value it wrote to the output parameter.
ComparedReloaded(out) == get_global_memory_usage

\* The left operand of the comparison of line 118: `*usage`, the value just
\* written to the output parameter.
Compared(out) == out

\* A strict comparison: usage equal to the mark would not count as reached.
ReachesStrict(u, m) == u > m

\* `*usage >= MEMORY_USAGE_HIGH_WATER.load(..)`
Reaches(u, m) == u >= m

\* A closure that returns false: the hook would force "not reached".
fail_point_return_false == FALSE

\* The closure `|_| true` of line 116: what the function returns when the
\* fail point is configured.
fail_point_return == TRUE

\* memory_usage_reaches_high_water as one atomic step (a caller that no
\* writer interleaves with).
memory_usage_reaches_high_water(t) ==
    /\ pc[t] \in {"idle", "ret"}
    /\ IF fp_active
         THEN /\ ret' = [ret EXCEPT ![t] = fail_point_return]
              /\ via_fp' = [via_fp EXCEPT ![t] = TRUE]
              /\ UNCHANGED usage_out
              /\ compared' = [compared EXCEPT ![t] = 0]
              /\ mark_loaded' = [mark_loaded EXCEPT ![t] = 0]
         ELSE LET u == get_global_memory_usage
                  c == Compared(u)
                  m == MEMORY_USAGE_HIGH_WATER
              IN  /\ usage_out' = [usage_out EXCEPT ![t] = u]
                  /\ compared' = [compared EXCEPT ![t] = c]
                  /\ mark_loaded' = [mark_loaded EXCEPT ![t] = m]
                  /\ ret' = [ret EXCEPT ![t] = Reaches(c, m)]
                  /\ via_fp' = [via_fp EXCEPT ![t] = FALSE]
    /\ pc' = [pc EXCEPT ![t] = "ret"]
    /\ last_op' = t
    /\ UNCHANGED <<GLOBAL_MEMORY_USAGE, MEMORY_USAGE_HIGH_WATER, fp_active,
                   last_recorded, last_registered>>

\* The same function split at its atomic operations, for interleaved callers.
\* Line 116: the fail point is evaluated on entry.
ReachesEnter(t) ==
    /\ pc[t] \in {"idle", "ret"}
    /\ UNCHANGED usage_out
    /\ compared' = [compared EXCEPT ![t] = 0]
    /\ mark_loaded' = [mark_loaded EXCEPT ![t] = 0]
    /\ IF fp_active
         THEN /\ ret' = [ret EXCEPT ![t] = fail_point_return]
              /\ via_fp' = [via_fp EXCEPT ![t] = TRUE]
              /\ pc' = [pc EXCEPT ![t] = "ret"]
              /\ last_op' = t
         ELSE /\ ret' = [ret EXCEPT ![t] = FALSE]
              /\ via_fp' = [via_fp EXCEPT ![t] = FALSE]
              /\ pc' = [pc EXCEPT ![t] = "load_usage"]
              /\ UNCHANGED last_op
    /\ UNCHANGED <<GLOBAL_MEMORY_USAGE, MEMORY_USAGE_HIGH_WATER, fp_active,
                   last_recorded, last_registered>>

\* Line 117: *usage = get_global_memory_usage();
ReachesLoadUsage(t) ==
    /\ pc[t] = "load_usage"
    /\ usage_out' = [usage_out EXCEPT ![t] = get_global_memory_usage]
    /\ pc' = [pc EXCEPT ![t] = "load_mark"]
    /\ UNCHANGED <<GLOBAL_MEMORY_USAGE, MEMORY_USAGE_HIGH_WATER, fp_active,
                   ret, via_fp, compared, mark_loaded, last_recorded,
                   last_registered, last_op>>

\* Line 118: *usage >= MEMORY_USAGE_HIGH_WATER.load(Ordering::Acquire)
ReachesLoadMark(t) ==
    /\ pc[t] = "load_mark"
    /\ LET c == Compared(usage_out[t])
           m == MEMORY_USAGE_HIGH_WATER
       IN  /\ compared' = [compared EXCEPT ![t] = c]
           /\ mark_loaded' = [mark_loaded EXCEPT ![t] = m]
           /\ ret' = [ret EXCEPT ![t] = Reaches(c, m)]
    /\ pc' = [pc EXCEPT ![t] = "ret"]
    /\ last_op' = t
    /\ UNCHANGED <<GLOBAL_MEMORY_USAGE, MEMORY_USAGE_HIGH_WATER, fp_active,
                   usage_out, via_fp, last_recorded, last_registered>>

(***************************************************************************)
(* Strings and results.                                                    *)
(* A Rust string is a sequence of one-character strings, so that trim,     *)
(* to_lowercase and the case conversions of serde are computed.            *)
(***************************************************************************)
UpperCase ==
    <<"A", "B", "C", "D", "E", "F", "G", "H", "I", "J", "K", "L", "M", "N", "O", "P", "Q", "R", "S", "T", "U", "V", "W", "X", "Y", "Z">>

LowerCase ==
    <<"a", "b", "c", "d", "e", "f", "g", "h", "i", "j", "k", "l", "m", "n", "o", "p", "q", "r", "s", "t", "u", "v", "w", "x", "y", "z">>

\* char::is_whitespace, for the ASCII characters the inputs use.
WhiteSpace == {" ", "\t", "\n"}

IndexIn(seq, c) == CHOOSE i \in 1 .. Len(seq) : seq[i] = c

IsUpper(c) == \E i \in 1 .. Len(UpperCase) : UpperCase[i] = c

IsLower(c) == \E i \in 1 .. Len(LowerCase) : LowerCase[i] = c

char_to_lowercase(c) == IF IsUpper(c) THEN LowerCase[IndexIn(UpperCase, c)] ELSE c

char_to_uppercase(c) == IF IsLower(c) THEN UpperCase[IndexIn(LowerCase, c)] ELSE c

\* str::to_lowercase
to_lowercase(s) == [i \in 1 .. Len(s) |-> char_to_lowercase(s[i])]

\* str::to_uppercase
to_uppercase(s) == [i \in 1 .. Len(s) |-> char_to_uppercase(s[i])]

RECURSIVE trim_start(_)
trim_start(s) ==
    IF s # <<>> /\ Head(s) \in WhiteSpace THEN trim_start(Tail(s)) ELSE s

RECURSIVE trim_end(_)
trim_end(s) ==
    IF s # <<>> /\ s[Len(s)] \in WhiteSpace
      THEN trim_end(SubSeq(s, 1, Len(s) - 1))
      ELSE s

\* str::trim
trim(s) == trim_end(trim_start(s))

\* `&*value.trim().to_lowercase()` (config.rs:115, 187)
Normalize(s) == to_lowercase(trim(s))

\* Result<T, E>, and the panic that unwinds out of a call instead of a Result.
Ok(v) == [tag |-> "Ok", v |-> v]
Err(kind) == [tag |-> "Err", v |-> kind]
Panic == [tag |-> "Panic", v |-> "panic"]
NoVal == [tag |-> "None", v |-> "none"]

\* A value of the configuration document: an integer or a string.
IntDoc(n) == [kind |-> "int", i |-> n, s |-> <<>>]
StrDoc(s) == [kind |-> "str", i |-> 0, s |-> s]
NoDoc == [kind |-> "none", i |-> 0, s |-> <<>>]

\* A `match` over a table of <<pattern, result>> arms: the first arm whose
\* pattern equals k.
HasArm(arms, k) == \E i \in 1 .. Len(arms) : arms[i][1] = k

FirstArm(arms, k) ==
    arms[CHOOSE i \in 1 .. Len(arms) :
            /\ arms[i][1] = k
            /\ \A j \in 1 .. i - 1 : arms[j][1] # k][2]

Column(arms, n) == {arms[i][n] : i \in 1 .. Len(arms)}

(***************************************************************************)
(* compression_type_serde (config.rs:145-210).                             *)
(***************************************************************************)
\* serialize: the names of lines 157-167.
compression_type_serde_names ==
    << <<"No", <<"n", "o">>>>,
       <<"Snappy", <<"s", "n", "a", "p", "p", "y">>>>,
       <<"Zlib", <<"z", "l", "i", "b">>>>,
       <<"Bz2", <<"b", "z", "i", "p", "2">>>>,
       <<"Lz4", <<"l", "z", "4">>>>,
       <<"Lz4hc", <<"l", "z", "4", "h", "c">>>>,
       <<"Zstd", <<"z", "s", "t", "d">>>>,
       <<"ZstdNotFinal", <<"z", "s", "t", "d", "-", "n", "o", "t", "-", "f", "i", "n", "a", "l">>>>,
       <<"Disable", <<"d", "i", "s", "a", "b", "l", "e">>>> >>

\* deserialize: the arms of lines 188-196.
compression_type_serde_arms ==
    << <<<<"n", "o">>, "No">>,
       <<<<"s", "n", "a", "p", "p", "y">>, "Snappy">>,
       <<<<"z", "l", "i", "b">>, "Zlib">>,
       <<<<"b", "z", "i", "p", "2">>, "Bz2">>,
       <<<<"l", "z", "4">>, "Lz4">>,
       <<<<"l", "z", "4", "h", "c">>, "Lz4hc">>,
       <<<<"z", "s", "t", "d">>, "Zstd">>,
       <<<<"z", "s", "t", "d", "-", "n", "o", "t", "-", "f", "i", "n", "a", "l">>, "ZstdNotFinal">>,
       <<<<"d", "i", "s", "a", "b", "l", "e">>, "Disable">> >>

DBCompressionType == Column(compression_type_serde_names, 1)

\* A serializer that writes Bz2 under the name of its variant, not "bzip2".
compression_type_serde_serialize_bz2(t) ==
    IF t = "Bz2"
      THEN StrDoc(<<"b", "z", "2">>)
      ELSE StrDoc(FirstArm(compression_type_serde_names, t))

compression_type_serde_serialize(t) ==
    StrDoc(FirstArm(compression_type_serde_names, t))

\* StrVistor::visit_str
compression_type_serde_visit_str(value) ==
    LET str == Normalize(value)
    IN  IF HasArm(compression_type_serde_arms, str)
          THEN Ok(FirstArm(compression_type_serde_arms, str))
          ELSE Err("invalid_value")

\* deserializer.deserialize_str(StrVistor): the visitor defines visit_str
\* only, every other document type is serde's invalid_type.
compression_type_serde_deserialize(doc) ==
    IF doc.kind = "str"
      THEN compression_type_serde_visit_str(doc.s)
      ELSE Err("invalid_type")

(***************************************************************************)
(* BlobRunMode (config.rs:212-254).                                        *)
(***************************************************************************)
\* The variants and their identifiers, lines 214-218.
BlobRunModeIdent ==
    << <<"Normal", <<"N", "o", "r", "m", "a", "l">>>>,
       <<"ReadOnly", <<"R", "e", "a", "d", "O", "n", "l", "y">>>>,
       <<"Fallback", <<"F", "a", "l", "l", "b", "a", "c", "k">>>> >>

BlobRunMode == Column(BlobRunModeIdent, 1)

RECURSIVE kebab_from(_, _)
kebab_from(ident, i) ==
    IF i > Len(ident) THEN <<>>
    ELSE (IF IsUpper(ident[i]) /\ i > 1 THEN <<"-">> ELSE <<>>)
         \o <<char_to_lowercase(ident[i])>> \o kebab_from(ident, i + 1)

\* #[serde(rename_all = "kebab-case")], line 213.
kebab_case(ident) == kebab_from(ident, 1)

\* The derived Serialize of BlobRunMode.
BlobRunMode_serialize(mode) ==
    StrDoc(kebab_case(FirstArm(BlobRunModeIdent, mode)))

\* FromStr::from_str, lines 243-253.
BlobRunMode_from_str_arms ==
    << <<<<"n", "o", "r", "m", "a", "l">>, "Normal">>,
       <<<<"r", "e", "a", "d", "-", "o", "n", "l", "y">>, "ReadOnly">>,
       <<<<"f", "a", "l", "l", "b", "a", "c", "k">>, "Fallback">> >>

BlobRunMode_from_str(s) ==
    IF HasArm(BlobRunMode_from_str_arms, s)
      THEN Ok(FirstArm(BlobRunMode_from_str_arms, s))
      ELSE Err("expect_got")

\* online_config::ConfigValue, as far as lines 220-239 tell its variants
\* apart: the BlobRunMode slot, which holds a string, and the other slots,
\* here one that holds a string too and one that holds nothing.
ConfigValueSlots == {"BlobRunMode", "String", "None"}

ConfigValue(slot, s) == [kind |-> "ConfigValue", slot |-> slot, s |-> s]

\* The derived Debug of BlobRunMode writes the identifier of the variant.
BlobRunMode_debug(mode) == FirstArm(BlobRunModeIdent, mode)

\* From<BlobRunMode> for ConfigValue, as a mutant that writes the name the
\* serde codec writes after the prefix.
ConfigValue_from_BlobRunMode_kebab(mode) ==
    ConfigValue("BlobRunMode", <<"k">> \o kebab_case(BlobRunMode_debug(mode)))

\* From<BlobRunMode> for ConfigValue, lines 220-224: format!("k{:?}", mode).
ConfigValue_from_BlobRunMode(mode) ==
    ConfigValue("BlobRunMode", <<"k">> \o BlobRunMode_debug(mode))

\* The match of lines 229-234.
BlobRunMode_from_ConfigValue_arms ==
    << <<<<"k", "N", "o", "r", "m", "a", "l">>, "Normal">>,
       <<<<"k", "R", "e", "a", "d", "O", "n", "l", "y">>, "ReadOnly">>,
       <<<<"k", "F", "a", "l", "l", "b", "a", "c", "k">>, "Fallback">> >>

\* From<ConfigValue> for BlobRunMode, lines 226-239: the variant, or the
\* panic of line 233 or of line 236.
BlobRunMode_from_ConfigValue(c) ==
    IF c.slot = "BlobRunMode"
      THEN IF HasArm(BlobRunMode_from_ConfigValue_arms, c.s)
             THEN Ok(FirstArm(BlobRunMode_from_ConfigValue_arms, c.s))
             ELSE Panic
      ELSE Panic

(***************************************************************************)
(* numeric_enum_mod! (config.rs:266-438).                                  *)
(***************************************************************************)
NumericEnums ==
    {"CompactionPriority", "DBRateLimiterMode", "DBCompactionStyle",
     "DBRecoveryMode", "PerfLevel"}

\* The `$variant = $value` arms of the five invocations.
NumericArms(e) ==
    CASE e = "CompactionPriority" ->
            << <<0, "ByCompensatedSize">>, <<1, "OldestLargestSeqFirst">>,
               <<2, "OldestSmallestSeqFirst">>, <<3, "MinOverlappingRatio">> >>
      [] e = "DBRateLimiterMode" ->
            << <<1, "ReadOnly">>, <<2, "WriteOnly">>, <<3, "AllIo">> >>
      [] e = "DBCompactionStyle" ->
            << <<0, "Level">>, <<1, "Universal">> >>
      [] e = "DBRecoveryMode" ->
            << <<0, "TolerateCorruptedTailRecords">>, <<1, "AbsoluteConsistency">>,
               <<2, "PointInTime">>, <<3, "SkipAnyCorruptedRecords">> >>
      [] e = "PerfLevel" ->
            << <<0, "Uninitialized">>, <<1, "Disable">>, <<2, "EnableCount">>,
               <<3, "EnableTimeExceptForMutex">>,
               <<4, "EnableTimeAndCPUTimeExceptForMutex">>,
               <<5, "EnableTime">>, <<6, "OutOfBounds">> >>

\* Arms that number the variants from zero in their order of declaration.
NumericArmsFromZero(e) ==
    [i \in 1 .. Len(NumericArms(e)) |-> <<i - 1, NumericArms(e)[i][2]>>]

\* The arms visit_i64 matches on.
visit_i64_arms(e) == NumericArms(e)

NumericVariants(e) == Column(NumericArms(e), 2)

\* `*mode as i64`: the discriminant of the rocksdb enumeration, which
\* tests::test_serde (lines 327-334) pins to the `$value` of each variant.
Discriminant(e, mode) ==
    CASE e = "CompactionPriority" ->
            [ByCompensatedSize |-> 0, OldestLargestSeqFirst |-> 1,
             OldestSmallestSeqFirst |-> 2, MinOverlappingRatio |-> 3][mode]
      [] e = "DBRateLimiterMode" ->
            [ReadOnly |-> 1, WriteOnly |-> 2, AllIo |-> 3][mode]
      [] e = "DBCompactionStyle" ->
            [Level |-> 0, Universal |-> 1][mode]
      [] e = "DBRecoveryMode" ->
            [TolerateCorruptedTailRecords |-> 0, AbsoluteConsistency |-> 1,
             PointInTime |-> 2, SkipAnyCorruptedRecords |-> 3][mode]
      [] e = "PerfLevel" ->
            [Uninitialized |-> 0, Disable |-> 1, EnableCount |-> 2,
             EnableTimeExceptForMutex |-> 3,
             EnableTimeAndCPUTimeExceptForMutex |-> 4,
             EnableTime |-> 5, OutOfBounds |-> 6][mode]

\* serializer.serialize_i64(*mode as i64)
numeric_enum_serialize(e, mode) == IntDoc(Discriminant(e, mode))

\* impl FromString for CompactionPriority, lines 352-363.
CompactionPriority_from_string ==
    << <<<<"B", "y", "C", "o", "m", "p", "e", "n", "s", "a", "t", "e", "d", "S", "i", "z", "e">>, "ByCompensatedSize">>,
       <<<<"O", "l", "d", "e", "s", "t", "L", "a", "r", "g", "e", "s", "t", "S", "e", "q", "F", "i", "r", "s", "t">>, "OldestLargestSeqFirst">>,
       <<<<"O", "l", "d", "e", "s", "t", "S", "m", "a", "l", "l", "e", "s", "t", "S", "e", "q", "F", "i", "r", "s", "t">>, "OldestSmallestSeqFirst">>,
       <<<<"M", "i", "n", "O", "v", "e", "r", "l", "a", "p", "p", "i", "n", "g", "R", "a", "t", "i", "o">>, "MinOverlappingRatio">> >>

\* impl FromString for DBRateLimiterMode, lines 371-380.
DBRateLimiterMode_from_string ==
    << <<<<"R", "e", "a", "d", "O", "n", "l", "y">>, "ReadOnly">>,
       <<<<"W", "r", "i", "t", "e", "O", "n", "l", "y">>, "WriteOnly">>,
       <<<<"A", "l", "l", "I", "o">>, "AllIo">> >>

\* impl FromString for DBCompactionStyle, lines 387-395.
DBCompactionStyle_from_string ==
    << <<<<"l", "e", "v", "e", "l">>, "Level">>,
       <<<<"u", "n", "i", "v", "e", "r", "s", "a", "l">>, "Universal">> >>

\* impl FromString for DBRecoveryMode, lines 402-413.
DBRecoveryMode_from_string ==
    << <<<<"T", "o", "l", "e", "r", "a", "t", "e", "C", "o", "r", "r", "u", "p", "t", "e", "d", "T", "a", "i", "l", "R", "e", "c", "o", "r", "d", "s">>, "TolerateCorruptedTailRecords">>,
       <<<<"A", "b", "s", "o", "l", "u", "t", "e", "C", "o", "n", "s", "i", "s", "t", "e", "n", "c", "y">>, "AbsoluteConsistency">>,
       <<<<"P", "o", "i", "n", "t", "I", "n", "T", "i", "m", "e">>, "PointInTime">>,
       <<<<"S", "k", "i", "p", "A", "n", "y", "C", "o", "r", "r", "u", "p", "t", "e", "d", "R", "e", "c", "o", "r", "d", "s">>, "SkipAnyCorruptedRecords">> >>

\* impl FromString for PerfLevel, lines 422-428: every name panics.
PerfLevel_from_string == <<>>

from_string_arms(e) ==
    CASE e = "CompactionPriority" -> CompactionPriority_from_string
      [] e = "DBRateLimiterMode" -> DBRateLimiterMode_from_string
      [] e = "DBCompactionStyle" -> DBCompactionStyle_from_string
      [] e = "DBRecoveryMode" -> DBRecoveryMode_from_string
      [] e = "PerfLevel" -> PerfLevel_from_string

\* FromString::from_string: the variant, or the panic of the `_` arm.
from_string(e, name) ==
    IF HasArm(from_string_arms(e), name)
      THEN Ok(FirstArm(from_string_arms(e), name))
      ELSE Panic

\* EnumVisitor::visit_i64, lines 294-301.
visit_i64(e, value) ==
    IF HasArm(visit_i64_arms(e), value)
      THEN Ok(FirstArm(visit_i64_arms(e), value))
      ELSE Err("invalid_value")

\* EnumVisitor::visit_str, lines 303-307: Ok($enum::from_string(value)).
visit_str(e, value) == from_string(e, value)

\* deserializer.deserialize_any(EnumVisitor): an integer goes to visit_i64, a
\* string to visit_str.
numeric_enum_deserialize(e, doc) ==
    CASE doc.kind = "int" -> visit_i64(e, doc.i)
      [] doc.kind = "str" -> visit_str(e, doc.s)
      [] OTHER -> Err("invalid_type")

(***************************************************************************)
(* The scalar codecs as calls on a drawn input.                            *)
(***************************************************************************)
Enums == NumericEnums \cup {"DBCompressionType", "BlobRunMode"}

Variants(e) ==
    CASE e = "DBCompressionType" -> DBCompressionType
      [] e = "BlobRunMode" -> BlobRunMode
      [] OTHER -> NumericVariants(e)

\* The names some codec writes or accepts, and text no codec knows.
BaseStrings ==
    Column(compression_type_serde_arms, 1)
    \cup Column(CompactionPriority_from_string, 1)
    \cup Column(DBRateLimiterMode_from_string, 1)
    \cup Column(DBCompactionStyle_from_string, 1)
    \cup Column(DBRecoveryMode_from_string, 1)
    \cup Column(BlobRunMode_from_str_arms, 1)
    \cup {<<>>, <<"y", "e", "s">>, <<"f", "i", "f", "o">>, <<"k", "N", "o", "r", "m", "a", "l">>}

PadChars == {" ", "\t"}

Pads == UNION {[1 .. n -> PadChars] : n \in 0 .. MaxPad}

Spellings(s) ==
    {s, to_uppercase(s), to_lowercase(s),
     [i \in 1 .. Len(s) |-> IF i = 1 THEN char_to_uppercase(s[i]) ELSE s[i]]}

StrInputs ==
    {l \o w \o r : l \in Pads, r \in Pads, w \in UNION {Spellings(b) : b \in BaseStrings}}

IntInputs == (0 - MaxIntInput) .. MaxIntInput

\* from_str takes a &str; the serde codecs take what the document holds.
DocInputs(e) ==
    {StrDoc(s) : s \in StrInputs}
    \cup (IF e = "BlobRunMode" THEN {} ELSE {IntDoc(n) : n \in IntInputs})

CodecIdle ==
    /\ c_enum = "none"
    /\ c_origin = "none"
    /\ c_doc0 = "none"
    /\ c_val0 = "none"
    /\ c_doc = "none"
    /\ c_val = "none"
    /\ c_steps = 0

CodecInit ==
    /\ c_enum \in Enums
    /\ c_origin \in {"doc", "val"}
    /\ IF c_origin = "doc"
         THEN /\ c_doc0 \in DocInputs(c_enum)
              /\ c_val0 = "none"
              /\ c_val = NoVal
         ELSE /\ c_doc0 = NoDoc
              /\ c_val0 \in Variants(c_enum)
              /\ c_val = Ok(c_val0)
    /\ c_doc = c_doc0
    /\ c_steps = 0

\* A decode is the first call on a given document, or follows an encode.
CanDecode ==
    /\ c_doc.kind # "none"
    /\ \/ c_origin = "doc" /\ c_steps = 0
       \/ c_origin = "val" /\ c_steps = 1

\* An encode is the first call on a given variant, or follows a decode that
\* returned Ok.
CanEncode ==
    /\ c_val.tag = "Ok"
    /\ \/ c_origin = "val" /\ c_steps = 0
       \/ c_origin = "doc" /\ c_steps = 1

Decoded(result) ==
    /\ c_val' = result
    /\ c_steps' = c_steps + 1
    /\ UNCHANGED <<c_enum, c_origin, c_doc0, c_val0, c_doc>>

Encoded(doc) ==
    /\ c_doc' = doc
    /\ c_steps' = c_steps + 1
    /\ UNCHANGED <<c_enum, c_origin, c_doc0, c_val0, c_val>>

CompressionDeserialize ==
    /\ c_enum = "DBCompressionType" /\ CanDecode
    /\ Decoded(compression_type_serde_deserialize(c_doc))
    /\ UNCHANGED <<memVars, ladderVars, quotaVars, threadVars>>

CompressionSerialize ==
    /\ c_enum = "DBCompressionType" /\ CanEncode
    /\ Encoded(compression_type_serde_serialize(c_val.v))
    /\ UNCHANGED <<memVars, ladderVars, quotaVars, threadVars>>

NumericDeserialize ==
    /\ c_enum \in NumericEnums /\ CanDecode
    /\ Decoded(numeric_enum_deserialize(c_enum, c_doc))
    /\ UNCHANGED <<memVars, ladderVars, quotaVars, threadVars>>

NumericSerialize ==
    /\ c_enum \in NumericEnums /\ CanEncode
    /\ Encoded(numeric_enum_serialize(c_enum, c_val.v))
    /\ UNCHANGED <<memVars, ladderVars, quotaVars, threadVars>>

BlobRunModeFromStr ==
    /\ c_enum = "BlobRunMode" /\ CanDecode
    /\ c_doc.kind = "str"
    /\ Decoded(BlobRunMode_from_str(c_doc.s))
    /\ UNCHANGED <<memVars, ladderVars, quotaVars, threadVars>>

BlobRunModeSerialize ==
    /\ c_enum = "BlobRunMode" /\ CanEncode
    /\ Encoded(BlobRunMode_serialize(c_val.v))
    /\ UNCHANGED <<memVars, ladderVars, quotaVars, threadVars>>

\* The strings a ConfigValue is given with: the three prefixed names, the
\* prefix before the serde names, and every string given to the codecs.
ConfigValueStrings ==
    Column(BlobRunMode_from_ConfigValue_arms, 1)
    \cup {<<"k">> \o n : n \in Column(BlobRunMode_from_str_arms, 1)}
    \cup StrInputs

ConfigValueInputs ==
    {ConfigValue(slot, s) : slot \in ConfigValueSlots \ {"None"}, s \in ConfigValueStrings}
    \cup {ConfigValue("None", <<>>)}

\* One conversion of BlobRunMode, or a round trip: out of a ConfigValue or a
\* &str given, or into a ConfigValue from a variant given.
ConfigValueInit ==
    /\ c_enum = "BlobRunMode"
    /\ c_origin \in {"doc", "val"}
    /\ IF c_origin = "doc"
         THEN /\ c_doc0 \in ConfigValueInputs \cup {StrDoc(s) : s \in StrInputs}
              /\ c_val0 = "none"
              /\ c_val = NoVal
         ELSE /\ c_doc0 = NoDoc
              /\ c_val0 \in BlobRunMode
              /\ c_val = Ok(c_val0)
    /\ c_doc = c_doc0
    /\ c_steps = 0

BlobRunModeFromConfigValue ==
    /\ c_enum = "BlobRunMode" /\ CanDecode
    /\ c_doc.kind = "ConfigValue"
    /\ Decoded(BlobRunMode_from_ConfigValue(c_doc))
    /\ UNCHANGED <<memVars, ladderVars, quotaVars, threadVars>>

BlobRunModeIntoConfigValue ==
    /\ c_enum = "BlobRunMode" /\ CanEncode
    /\ Encoded(ConfigValue_from_BlobRunMode(c_val.v))
    /\ UNCHANGED <<memVars, ladderVars, quotaVars, threadVars>>

(***************************************************************************)
(* compression_type_level_serde (config.rs:59-143).                        *)
(***************************************************************************)
\* [DBCompressionType; 7]
LEVELS == 7

\* serialize: the names of lines 74-84.
compression_type_level_serde_names ==
    << <<"No", <<"n", "o">>>>,
       <<"Snappy", <<"s", "n", "a", "p", "p", "y">>>>,
       <<"Zlib", <<"z", "l", "i", "b">>>>,
       <<"Bz2", <<"b", "z", "i", "p", "2">>>>,
       <<"Lz4", <<"l", "z", "4">>>>,
       <<"Lz4hc", <<"l", "z", "4", "h", "c">>>>,
       <<"Zstd", <<"z", "s", "t", "d">>>>,
       <<"ZstdNotFinal", <<"z", "s", "t", "d", "-", "n", "o", "t", "-", "f", "i", "n", "a", "l">>>>,
       <<"Disable", <<"d", "i", "s", "a", "b", "l", "e">>>> >>

\* deserialize: the arms of lines 115-125.
compression_type_level_serde_arms ==
    << <<<<"n", "o">>, "No">>,
       <<<<"s", "n", "a", "p", "p", "y">>, "Snappy">>,
       <<<<"z", "l", "i", "b">>, "Zlib">>,
       <<<<"b", "z", "i", "p", "2">>, "Bz2">>,
       <<<<"l", "z", "4">>, "Lz4">>,
       <<<<"l", "z", "4", "h", "c">>, "Lz4hc">>,
       <<<<"z", "s", "t", "d">>, "Zstd">>,
       <<<<"z", "s", "t", "d", "-", "n", "o", "t", "-", "f", "i", "n", "a", "l">>, "ZstdNotFinal">>,
       <<<<"d", "i", "s", "a", "b", "l", "e">>, "Disable">> >>

\* The result of the ladder decoder: the array, or the serde error with the
\* text that says what was expected.
LadderOk(arr) == [tag |-> "Ok", arr |-> arr, kind |-> "", exp |-> ""]
LadderErr(kind, exp) == [tag |-> "Err", arr |-> <<>>, kind |-> kind, exp |-> exp]
LadderNone == [tag |-> "None", arr |-> <<>>, kind |-> "", exp |-> ""]

\* serialize_seq(Some(ts.len())), one serialize_element(name) per level.
compression_type_level_serde_serialize(ts) ==
    [n \in 1 .. Len(ts) |-> FirstArm(compression_type_level_serde_names, ts[n])]

\* The `while let` loop of SeqVisitor::visit_seq from the state (rest of the
\* sequence, i, seqs), and the check after it.
RECURSIVE visit_seq_loop(_, _, _)
visit_seq_loop(rest, i, seqs) ==
    IF rest = <<>>
      THEN IF i < LEVELS
             THEN LadderErr("invalid_length", "7 compression types")
             ELSE LadderOk(seqs)
      ELSE LET value == Head(rest)
               name == Normalize(value)
           IN  IF i = LEVELS
                 THEN LadderErr("invalid_value", "only 7 compression types")
                 ELSE IF HasArm(compression_type_level_serde_arms, name)
                        THEN visit_seq_loop(
                                 Tail(rest), i + 1,
                                 [seqs EXCEPT ![i + 1] =
                                     FirstArm(compression_type_level_serde_arms, name)])
                        ELSE LadderErr("invalid_value", "invalid compression type")

\* A loop whose counter starts at one.
visit_seq_from_one(seq) == visit_seq_loop(seq, 1, [n \in 1 .. LEVELS |-> "No"])

\* SeqVisitor::visit_seq: seqs = [DBCompressionType::No; 7], i = 0.
visit_seq(seq) == visit_seq_loop(seq, 0, [n \in 1 .. LEVELS |-> "No"])

compression_type_level_serde_deserialize(seq) == visit_seq(seq)

\* The inputs: every sequence of up to LEVELS names taken from LadderAlphabet
\* neighbours of the list of names; the longer sequences, up to MaxLadderLen,
\* that run through the list from each name on (as the windows of
\* tests::test_parse_compression_type); and sequences of `no` with one
\* element that is unknown or spelled differently.
NameCount == Len(compression_type_level_serde_names)

WindowNames(w) ==
    {compression_type_level_serde_names[((w + j) % NameCount) + 1][2] :
        j \in 0 .. LadderAlphabet - 1}

WindowVariants(w) ==
    {compression_type_level_serde_names[((w + j) % NameCount) + 1][1] :
        j \in 0 .. LadderAlphabet - 1}

OddElements == {<<"y", "e", "s">>, <<"N", "O">>, <<" ", "n", "o">>}

Slide(w, n) ==
    [i \in 1 .. n |-> compression_type_level_serde_names[((w + i - 1) % NameCount) + 1][2]]

IsLadderInput(seq) ==
    \/ \E n \in 0 .. LEVELS, w \in 0 .. NameCount - 1 : seq \in [1 .. n -> WindowNames(w)]
    \/ \E n \in LEVELS + 1 .. MaxLadderLen, w \in 0 .. NameCount - 1 : seq = Slide(w, n)
    \/ \E n \in 1 .. MaxLadderLen, p \in 1 .. MaxLadderLen, odd \in OddElements :
          seq = [i \in 1 .. n |-> IF i = p THEN odd ELSE <<"n", "o">>]

IsLadderArray(arr) ==
    \E w \in 0 .. NameCount - 1 : arr \in [1 .. LEVELS -> WindowVariants(w)]

LadderIdle ==
    /\ l_origin = "none"
    /\ l_in = <<>>
    /\ l_arr0 = <<>>
    /\ l_doc = <<>>
    /\ l_res = "none"
    /\ l_steps = 0

LadderInit ==
    /\ l_origin \in {"doc", "val"}
    /\ IF l_origin = "doc"
         THEN /\ IsLadderInput(l_in)
              /\ l_arr0 = <<>>
              /\ l_res = LadderNone
         ELSE /\ l_in = <<>>
              /\ IsLadderArray(l_arr0)
              /\ l_res = LadderOk(l_arr0)
    /\ l_doc = l_in
    /\ l_steps = 0

LadderDeserialize ==
    /\ \/ l_origin = "doc" /\ l_steps = 0
       \/ l_origin = "val" /\ l_steps = 1
    /\ l_res' = compression_type_level_serde_deserialize(l_doc)
    /\ l_steps' = l_steps + 1
    /\ UNCHANGED <<l_origin, l_in, l_arr0, l_doc>>
    /\ UNCHANGED <<memVars, codecVars, quotaVars, threadVars>>

LadderSerialize ==
    /\ l_res.tag = "Ok"
    /\ \/ l_origin = "val" /\ l_steps = 0
       \/ l_origin = "doc" /\ l_steps = 1
    /\ l_doc' = compression_type_level_serde_serialize(l_res.arr)
    /\ l_steps' = l_steps + 1
    /\ UNCHANGED <<l_origin, l_in, l_arr0, l_res>>
    /\ UNCHANGED <<memVars, codecVars, quotaVars, threadVars>>

(***************************************************************************)
(* SysQuota (sys/mod.rs:28-89, 121-129).                                   *)
(***************************************************************************)
\* An f64: a finite value counted in half cores, an infinity or a NaN.
Fin(v) == [kind |-> "fin", v |-> v]
NaN == [kind |-> "nan", v |-> 0]
PosInf == [kind |-> "inf", v |-> 0]
NegInf == [kind |-> "ninf", v |-> 0]
NoF64 == [kind |-> "none", v |-> 0]

\* `n as f64` of a count of cores.
cores_as_f64(n) == Fin(2 * n)

\* a < b on f64: false when either is a NaN.
f64_lt(a, b) ==
    /\ a.kind # "nan" /\ b.kind # "nan"
    /\ \/ a.kind = "ninf" /\ b.kind # "ninf"
       \/ a.kind # "inf" /\ b.kind = "inf"
       \/ a.kind = "fin" /\ b.kind = "fin" /\ a.v < b.v

\* a != b on f64: true when either is a NaN.
f64_ne(a, b) == a.kind = "nan" \/ b.kind = "nan" \/ a # b

\* f64::min: the other operand when one is a NaN.
f64_min(a, b) ==
    IF a.kind = "nan" THEN b
    ELSE IF b.kind = "nan" THEN a
    ELSE IF f64_lt(b, a) THEN b ELSE a

\* f64::is_sign_positive: the sign bit is clear.
is_sign_positive(a) ==
    \/ a.kind \in {"inf", "nan"}
    \/ a.kind = "fin" /\ a.v >= 0

\* What TIKV_CPU_CORES_QUOTA holds: not set, text that is no f64, or text
\* that parses to an f64 (a number of any sign, an infinity, a NaN).
EnvAbsent == [set |-> FALSE, parsed |-> NoF64]
EnvUnparsable == [set |-> TRUE, parsed |-> NoF64]
EnvNumber(x) == [set |-> TRUE, parsed |-> x]

EnvVarValues ==
    {EnvAbsent, EnvUnparsable, EnvNumber(NaN), EnvNumber(PosInf), EnvNumber(NegInf)}
    \cup {EnvNumber(Fin(v)) : v \in (0 - 2 * (MaxCpus + 1)) .. 2 * (MaxCpus + 1)}

\* std::env::var(KEY).ok().and_then(|value| value.parse().ok())
env_var_quota(env) ==
    IF env.set /\ env.parsed.kind # "none" THEN env.parsed ELSE NoF64

\* limit_cpu_cores_quota_by_env_var, lines 121-129: the guard of the first
\* arm is `quota.is_sign_positive()`.
limit_cpu_cores_quota_by_env_var(quota, env) ==
    LET env_quota == env_var_quota(env)
    IN  IF env_quota.kind # "none" /\ is_sign_positive(quota)
          THEN f64_min(quota, env_quota)
          ELSE quota

\* SELF_CGROUP.cpu_quota(): None, or the quota of the cgroup in cores; the
\* cgroup module reports a zero or positive number.
CgroupCpuQuotaValues ==
    {NoF64} \cup {Fin(v) : v \in 0 .. 2 * (MaxCpus + 1)}

\* SysQuota::cpu_cores_quota, lines 31-45 on Linux and 48-51 elsewhere.
cpu_cores_quota(env) ==
    IF env.linux
      THEN LET cpu_num0 == cores_as_f64(env.num_cpus)
               cpuset_cores == cores_as_f64(env.cpuset_cores)
               cpu_quota == IF env.cpu_quota.kind = "none" THEN Fin(0) ELSE env.cpu_quota
               cpu_num1 == IF f64_ne(cpuset_cores, Fin(0))
                             THEN f64_min(cpu_num0, cpuset_cores)
                             ELSE cpu_num0
               cpu_num2 == IF f64_ne(cpu_quota, Fin(0))
                             THEN f64_min(cpu_num1, cpu_quota)
                             ELSE cpu_num1
           IN  limit_cpu_cores_quota_by_env_var(cpu_num2, env.env_var)
      ELSE limit_cpu_cores_quota_by_env_var(cores_as_f64(env.num_cpus), env.env_var)

\* crate::config::KIB
KIB == 1024

\* SysQuota::sysinfo_memory_limit_in_bytes: system.get_total_memory() * KIB
sysinfo_memory_limit_in_bytes(env) == env.total_kib * KIB

\* A limit taken from the cgroup whenever it is positive.
memory_limit_cgroup_first(env) ==
    IF env.linux /\ env.cgroup_memory_limit > 0
      THEN env.cgroup_memory_limit
      ELSE sysinfo_memory_limit_in_bytes(env)

\* SysQuota::memory_limit_in_bytes, lines 54-62 on Linux and 65-67 elsewhere.
memory_limit_in_bytes(env) ==
    IF env.linux
      THEN LET total_mem == sysinfo_memory_limit_in_bytes(env)
               cgroup_memory_limit == env.cgroup_memory_limit
           IN  IF cgroup_memory_limit <= 0
                 THEN total_mem
                 ELSE IF total_mem < cgroup_memory_limit
                        THEN total_mem
                        ELSE cgroup_memory_limit
      ELSE sysinfo_memory_limit_in_bytes(env)

\* The environments: a Linux host with any cgroup settings, or another
\* platform, where there is no cgroup. One probe is studied at a time; the
\* inputs of the other are those of a host without limits.
BareEnv ==
    [linux |-> TRUE, num_cpus |-> 1, cpuset_cores |-> 0, cpu_quota |-> NoF64,
     env_var |-> EnvAbsent, total_kib |-> 1, cgroup_memory_limit |-> 0 - 1]

CpuEnvs ==
    {[BareEnv EXCEPT !.linux = TRUE, !.num_cpus = n, !.cpuset_cores = c,
                     !.cpu_quota = q, !.env_var = e] :
        n \in 1 .. MaxCpus, c \in 0 .. MaxCpus + 1,
        q \in CgroupCpuQuotaValues, e \in EnvVarValues}
    \cup {[BareEnv EXCEPT !.linux = FALSE, !.num_cpus = n, !.env_var = e] :
            n \in 1 .. MaxCpus, e \in EnvVarValues}

MemEnvs ==
    {[BareEnv EXCEPT !.linux = TRUE, !.total_kib = t, !.cgroup_memory_limit = l] :
        t \in 1 .. MaxMemKib, l \in (0 - 1) .. (MaxMemKib + 1) * KIB}
    \cup {[BareEnv EXCEPT !.linux = FALSE, !.total_kib = t] : t \in 1 .. MaxMemKib}

QuotaIdle ==
    /\ q_env = "none"
    /\ q_cpu = "none"
    /\ q_mem = 0
    /\ q_done = {}

QuotaInit ==
    /\ q_env \in CpuEnvs \cup MemEnvs
    /\ q_cpu = NoF64
    /\ q_mem = 0
    /\ q_done = {}

CpuCoresQuota ==
    /\ "cpu" \notin q_done
    /\ q_cpu' = cpu_cores_quota(q_env)
    /\ q_done' = q_done \cup {"cpu"}
    /\ UNCHANGED <<q_env, q_mem>>
    /\ UNCHANGED <<memVars, codecVars, ladderVars, threadVars>>

MemoryLimitInBytes ==
    /\ "mem" \notin q_done
    /\ q_mem' = memory_limit_in_bytes(q_env)
    /\ q_done' = q_done \cup {"mem"}
    /\ UNCHANGED <<q_env, q_cpu>>
    /\ UNCHANGED <<memVars, codecVars, ladderVars, threadVars>>

(***************************************************************************)
(* thread::set_priority / thread::get_priority (sys/mod.rs:17, 133-215).   *)
(* The calling thread's niceness is kept by the kernel; the two functions  *)
(* reach it through setpriority(2) and getpriority(2) and through errno.   *)
(***************************************************************************)
\* pub const HIGH_PRI, line 17.
HIGH_PRI == -1

\* "priority is a value in range -20 to 19", line 187.
MIN_NICE == -20
MAX_NICE == 19

\* The errno of a refused setpriority; Error::last_os_error (line 143) turns
\* it into ErrorKind::PermissionDenied (line 197).
EACCES == 13

\* What errno can hold when the thread first calls: 0, or the code an earlier
\* system call left behind.
ErrnoValues == {0, EACCES}

\* The priorities requested: the ones of tests::test_set_priority, the ends
\* of the niceness range and up to MaxOver beyond each end.
PriInputs ==
    {HIGH_PRI, 0, 10}
    \cup {MIN_NICE - k : k \in 0 .. MaxOver}
    \cup {MAX_NICE + k : k \in 0 .. MaxOver}

\* The environment of the thread: the build (linux or not), whether the
\* process holds CAP_SYS_NICE, its RLIMIT_NICE, and the niceness the thread
\* inherited when it was created.
BareThreadEnv ==
    [linux |-> FALSE, cap_sys_nice |-> FALSE, rlimit_nice |-> 0, inherited |-> 0]

ThreadEnvs ==
    {[linux |-> TRUE, cap_sys_nice |-> c, rlimit_nice |-> r, inherited |-> n] :
        c \in BOOLEAN, r \in {0, 20 - HIGH_PRI}, n \in {HIGH_PRI, 0, 5}}
    \cup {BareThreadEnv}

\* The kernel's bound on the value given to setpriority: out-of-range values
\* are brought to the nearest end of the range.
clamp_nice(pri) ==
    IF pri < MIN_NICE THEN MIN_NICE
    ELSE IF pri > MAX_NICE THEN MAX_NICE
    ELSE pri

\* Whether the thread may move to niceness n when that is below its own.
can_nice(env, n) == env.cap_sys_nice \/ 20 - n <= env.rlimit_nice

\* libc::setpriority(PRIO_PROCESS, tid, pri), line 141: the return code, the
\* niceness and the errno after the call.
libc_setpriority(env, nice, errno, pri) ==
    LET n == clamp_nice(pri) IN
    IF n < nice /\ ~can_nice(env, n)
      THEN [rc |-> -1, nice |-> nice, errno |-> EACCES]
      ELSE [rc |-> 0, nice |-> n, errno |-> errno]

\* libc::getpriority(PRIO_PROCESS, tid), line 154: on the calling thread it
\* cannot fail, returns the niceness and leaves errno alone.
libc_getpriority(nice, errno) == [ret |-> nice, errno |-> errno]

\* clear_errno, lines 173-178, as a mutant that leaves errno as it was.
clear_errno_skipped(errno) == errno

\* clear_errno, lines 173-178.
clear_errno(errno) == 0

\* set_priority (lines 137-147 on linux, 207-209 elsewhere): the Result, the
\* niceness and the errno after the call.
set_priority(env, nice, errno, pri) ==
    IF env.linux
      THEN LET k == libc_setpriority(env, nice, errno, pri) IN
           IF k.rc # 0
             THEN [res |-> Err(k.errno), nice |-> k.nice, errno |-> k.errno]
             ELSE [res |-> Ok("unit"), nice |-> k.nice, errno |-> k.errno]
      ELSE [res |-> Ok("unit"), nice |-> nice, errno |-> errno]

\* get_priority (lines 149-164 on linux, 211-213 elsewhere).
get_priority(env, nice, errno) ==
    IF env.linux
      THEN LET k == libc_getpriority(nice, clear_errno(errno)) IN
           IF k.ret = -1 /\ k.errno # 0
             THEN [res |-> Err(k.errno), nice |-> nice, errno |-> k.errno]
             ELSE [res |-> Ok(k.ret), nice |-> nice, errno |-> k.errno]
      ELSE [res |-> Ok(0), nice |-> nice, errno |-> errno]

\* One completed call, as the history keeps it.
Call(op, pri, before, out) ==
    [op |-> op, pri |-> pri, before |-> before, res |-> out.res]

\* The history keeps the latest two calls, latest last.
Remember(hist, call) ==
    IF Len(hist) < 2 THEN Append(hist, call) ELSE <<hist[2], call>>

ThreadIdle ==
    /\ th_env = "none"
    /\ th_nice = 0
    /\ th_errno = 0
    /\ th_hist = <<>>
    /\ th_set_called = FALSE

ThreadInit ==
    /\ th_env \in ThreadEnvs
    /\ th_nice = th_env.inherited
    /\ th_errno \in ErrnoValues
    /\ th_hist = <<>>
    /\ th_set_called = FALSE

SetPriority ==
    /\ \E pri \in PriInputs :
         LET out == set_priority(th_env, th_nice, th_errno, pri) IN
         /\ th_nice' = out.nice
         /\ th_errno' = out.errno
         /\ th_hist' = Remember(th_hist, Call("set", pri, th_nice, out))
    /\ th_set_called' = TRUE
    /\ UNCHANGED th_env
    /\ UNCHANGED <<memVars, codecVars, ladderVars, quotaVars>>

GetPriority ==
    /\ LET out == get_priority(th_env, th_nice, th_errno) IN
         /\ th_nice' = out.nice
         /\ th_errno' = out.errno
         /\ th_hist' = Remember(th_hist, Call("get", 0, th_nice, out))
    /\ UNCHANGED <<th_env, th_set_called>>
    /\ UNCHANGED <<memVars, codecVars, ladderVars, quotaVars>>

(***************************************************************************)
(* Specifications.                                                         *)
(***************************************************************************)
Record ==
    /\ \E v \in RecordedValues : record_global_memory_usage(v)
    /\ UNCHANGED <<codecVars, ladderVars, quotaVars, threadVars>>

Register ==
    /\ \E m \in U64 : register_memory_usage_high_water(m)
    /\ UNCHANGED <<codecVars, ladderVars, quotaVars, threadVars>>

SetFailPoint == FailPointCfg /\ UNCHANGED <<codecVars, ladderVars, quotaVars, threadVars>>

Check ==
    /\ \E t \in Readers : memory_usage_reaches_high_water(t)
    /\ UNCHANGED <<codecVars, ladderVars, quotaVars, threadVars>>

Enter ==
    /\ \E t \in Readers : ReachesEnter(t)
    /\ UNCHANGED <<codecVars, ladderVars, quotaVars, threadVars>>

LoadUsage ==
    /\ \E t \in Readers : ReachesLoadUsage(t)
    /\ UNCHANGED <<codecVars, ladderVars, quotaVars, threadVars>>

LoadMark ==
    /\ \E t \in Readers : ReachesLoadMark(t)
    /\ UNCHANGED <<codecVars, ladderVars, quotaVars, threadVars>>

Init == MemInit /\ CodecIdle /\ LadderIdle /\ QuotaIdle /\ ThreadIdle

Next == Record \/ Register \/ SetFailPoint \/ Check

Spec == Init /\ [][Next]_vars

NextConc == Record \/ Register \/ SetFailPoint \/ Enter \/ LoadUsage \/ LoadMark

SpecConc == Init /\ [][NextConc]_vars

InitCodec == MemInit /\ CodecInit /\ LadderIdle /\ QuotaIdle /\ ThreadIdle

NextCodec ==
    \/ CompressionDeserialize \/ CompressionSerialize
    \/ NumericDeserialize \/ NumericSerialize
    \/ BlobRunModeFromStr \/ BlobRunModeSerialize

SpecCodec == InitCodec /\ [][NextCodec]_vars

InitConfigValue ==
    MemInit /\ ConfigValueInit /\ LadderIdle /\ QuotaIdle /\ ThreadIdle

NextConfigValue ==
    BlobRunModeFromStr \/ BlobRunModeFromConfigValue \/ BlobRunModeIntoConfigValue

SpecConfigValue == InitConfigValue /\ [][NextConfigValue]_vars

InitLadder == MemInit /\ CodecIdle /\ LadderInit /\ QuotaIdle /\ ThreadIdle

NextLadder == LadderDeserialize \/ LadderSerialize

SpecLadder == InitLadder /\ [][NextLadder]_vars

InitQuota == MemInit /\ CodecIdle /\ LadderIdle /\ QuotaInit /\ ThreadIdle

NextQuota == CpuCoresQuota \/ MemoryLimitInBytes

SpecQuota == InitQuota /\ [][NextQuota]_vars

InitThread == MemInit /\ CodecIdle /\ LadderIdle /\ QuotaIdle /\ ThreadInit

NextThread == SetPriority \/ GetPriority

SpecThread == InitThread /\ [][NextThread]_vars

(***************************************************************************)
(* Claims.                                                                 *)
(***************************************************************************)

\* C1: with the fail point inactive, a memory_usage_reaches_high_water call
\* that follows any sequence of record and register calls writes the most
\* recently recorded usage (0 if none) to its output parameter and returns
\* TRUE exactly when that usage is at or above the most recently registered
\* mark (the largest u64 if none).
C1_HighWaterCheck ==
    \A t \in Readers :
        (last_op = t /\ ~via_fp[t]) =>
            /\ usage_out[t] = last_recorded
            /\ ret[t] = (last_recorded >= last_registered)

\* A check that returned TRUE at usage equal to a registered mark, after a
\* usage was recorded.
C1_Witness ==
    \E t \in Readers :
        /\ last_op = t /\ ~via_fp[t] /\ ret[t]
        /\ last_recorded > 0
        /\ last_registered < U64_MAX
        /\ last_recorded = last_registered

\* C2: under any interleaving with the writers, a reader whose call returned
\* TRUE (fail point inactive) holds in its output parameter the very value
\* that was compared, and that value is at or above the mark the call loaded.
C2_ReaderSeesTrigger ==
    \A t \in Readers :
        (pc[t] = "ret" /\ ret[t] /\ ~via_fp[t]) =>
            /\ usage_out[t] = compared[t]
            /\ usage_out[t] >= mark_loaded[t]

\* A reader returned TRUE, nothing was stored since it returned, and the
\* counter no longer holds the value it was given: a record call ran between
\* its two loads.
C2_Witness ==
    \E t \in Readers :
        /\ pc[t] = "ret" /\ last_op = t /\ ret[t] /\ ~via_fp[t]
        /\ usage_out[t] # GLOBAL_MEMORY_USAGE

\* The ordinal the numeric_enum_mod! invocation declares for a variant, and
\* the variant it declares for an ordinal.
DeclaredOrdinals(e) == Column(NumericArms(e), 1)

OrdinalOf(e, mode) ==
    CHOOSE n \in DeclaredOrdinals(e) :
        \E i \in 1 .. Len(NumericArms(e)) : NumericArms(e)[i] = <<n, mode>>

VariantAt(e, n) ==
    CHOOSE mode \in NumericVariants(e) :
        \E i \in 1 .. Len(NumericArms(e)) : NumericArms(e)[i] = <<n, mode>>

\* C3: for every variant of a numerically encoded enumeration, encode writes
\* the declared ordinal and decoding it gives the variant back; a declared
\* ordinal decodes to its variant and any other integer fails with an
\* invalid-value error.
C3_NumericRoundTrip ==
    c_enum \in NumericEnums =>
        /\ (c_origin = "val" /\ c_steps >= 1) =>
               c_doc = IntDoc(OrdinalOf(c_enum, c_val0))
        /\ (c_origin = "val" /\ c_steps = 2) => c_val = Ok(c_val0)
        /\ (c_origin = "doc" /\ c_doc0.kind = "int" /\ c_steps >= 1) =>
               IF c_doc0.i \in DeclaredOrdinals(c_enum)
                 THEN c_val = Ok(VariantAt(c_enum, c_doc0.i))
                 ELSE c_val = Err("invalid_value")

\* The rate-limiter mode AllIo was written as 3 and read back.
C3_Witness ==
    /\ c_enum = "DBRateLimiterMode" /\ c_origin = "val" /\ c_steps = 2
    /\ c_val0 = "AllIo" /\ c_doc = IntDoc(3) /\ c_val = Ok("AllIo")

\* The names an enumeration is written with, or, for an enumeration written
\* as a number, the names its decoder matches.
CanonicalAlphabet(e) ==
    CASE e = "DBCompressionType" -> Column(compression_type_serde_names, 2)
      [] e = "BlobRunMode" ->
            {kebab_case(BlobRunModeIdent[i][2]) : i \in 1 .. Len(BlobRunModeIdent)}
      [] OTHER -> Column(from_string_arms(e), 1)

\* Whether the text names a variant of the enumeration. The compression
\* names are read without regard to case and surrounding whitespace; text
\* that names no variant in this sense is outside the canonical alphabet in
\* every sense.
NamesVariant(e, s) ==
    IF e = "DBCompressionType"
      THEN to_lowercase(trim(s)) \in CanonicalAlphabet(e)
      ELSE s \in CanonicalAlphabet(e)

\* C4: for every enumeration, decoding a string outside its canonical
\* alphabet returns a recoverable invalid-value error to the caller: no
\* panic, and no variant.
C4_UnknownTextRejected ==
    (/\ c_origin = "doc" /\ c_doc0.kind = "str" /\ c_steps >= 1
     /\ ~NamesVariant(c_enum, c_doc0.s))
        => (c_val.tag = "Err" /\ c_val.v \in {"invalid_value", "expect_got"})

AllRecognized(seq) ==
    \A i \in 1 .. Len(seq) : seq[i] \in Column(compression_type_level_serde_arms, 1)

\* C6: the ladder decoder fails with the length error for every sequence of
\* recognized names whose length is not 7, shorter or longer.
C6_WrongLengthIsLengthError ==
    (/\ l_origin = "doc" /\ l_steps >= 1
     /\ Len(l_in) # LEVELS /\ AllRecognized(l_in))
        => (l_res.tag = "Err" /\ l_res.kind = "invalid_length")

\* C7: a sequence of 7 recognized names decodes, and the array encodes back
\* to 7 names equal to the input in every position; an array of 7 variants
\* encodes to 7 names that decode back to the same array.
C7_LadderRoundTrip ==
    /\ (l_origin = "doc" /\ Len(l_in) = LEVELS /\ AllRecognized(l_in)) =>
           /\ l_steps >= 1 => l_res.tag = "Ok"
           /\ l_steps = 2 =>
                  /\ Len(l_doc) = LEVELS
                  /\ \A i \in 1 .. LEVELS : l_doc[i] = l_in[i]
    /\ l_origin = "val" =>
           /\ l_steps >= 1 => Len(l_doc) = LEVELS
           /\ l_steps = 2 => (l_res.tag = "Ok" /\ l_res.arr = l_arr0)

\* A ladder of `zstd-not-final` and `disable` was decoded and written back.
C7_Witness ==
    /\ l_origin = "doc" /\ l_steps = 2 /\ Len(l_in) = LEVELS
    /\ l_res.tag = "Ok" /\ l_res.arr[1] = "ZstdNotFinal" /\ l_res.arr[LEVELS] = "Disable"
    /\ l_doc = l_in

\* a >= b on f64: false when either is a NaN.
f64_ge(a, b) == a.kind # "nan" /\ b.kind # "nan" /\ ~f64_lt(a, b)

\* C8: whatever the host core count, the cgroup cpuset and quota and the
\* override are, cpu_cores_quota returns a value that is >= 0 and <= the
\* host's logical core count.
C8_CpuQuotaInRange ==
    "cpu" \in q_done =>
        /\ f64_ge(q_cpu, Fin(0))
        /\ f64_ge(cores_as_f64(q_env.num_cpus), q_cpu)

\* The quota computed from the host and the cgroup alone.
ComputedQuota == cpu_cores_quota([q_env EXCEPT !.env_var = EnvAbsent])

\* The override parses as a positive number.
OverrideIsPositive ==
    /\ q_env.env_var.set
    /\ q_env.env_var.parsed.kind \in {"fin", "inf"}
    /\ f64_lt(Fin(0), q_env.env_var.parsed)

\* C9: the override changes the computed quota only when it parses as a
\* positive number, and then the result is min(computed, override); absent,
\* unparsable or not positive, it is ignored.
C9_OverrideOnlyWhenPositive ==
    "cpu" \in q_done =>
        q_cpu = IF OverrideIsPositive
                  THEN f64_min(ComputedQuota, q_env.env_var.parsed)
                  ELSE ComputedQuota

\* C10: memory_limit_in_bytes returns the host total when the cgroup limit
\* is absent or not positive, min(host total, limit) when it is positive,
\* and never more than the host total.
C10_MemoryLimit ==
    "mem" \in q_done =>
        LET host == q_env.total_kib * KIB
            limit == q_env.cgroup_memory_limit
        IN  /\ limit <= 0 => q_mem = host
            /\ limit > 0 => q_mem = (IF host < limit THEN host ELSE limit)
            /\ q_mem <= host

\* A cgroup limit below the host total was returned.
C10_Witness ==
    /\ "mem" \in q_done /\ q_env.linux
    /\ q_env.cgroup_memory_limit > 0
    /\ q_env.cgroup_memory_limit < q_env.total_kib * KIB
    /\ q_mem = q_env.cgroup_memory_limit

\* The latest completed call of the thread, and the one before it.
HasLast(op) == Len(th_hist) >= 1 /\ th_hist[Len(th_hist)].op = op
LastCall == th_hist[Len(th_hist)]
HasPrev(op) == Len(th_hist) = 2 /\ th_hist[1].op = op
PrevCall == th_hist[1]

IsOk(res, v) == res.tag = "Ok" /\ res.v = v
IsPermissionDenied(res) == res.tag = "Err" /\ res.v = EACCES

\* C11 as stated: get_priority returns 0 before any set_priority call; after
\* every successful set_priority(p) the next get_priority returns Ok(p); a
\* set_priority refused with permission-denied leaves the niceness as it was.
\* This fails: on a build that is not for linux set_priority(10) returns Ok
\* and the next get_priority returns Ok(0).
C11_PriorityContract ==
    /\ (HasLast("get") /\ ~th_set_called) => IsOk(LastCall.res, 0)
    /\ (HasPrev("set") /\ PrevCall.res.tag = "Ok" /\ HasLast("get"))
          => IsOk(LastCall.res, PrevCall.pri)
    /\ (HasLast("set") /\ IsPermissionDenied(LastCall.res))
          => th_nice = LastCall.before

\* C11 amended: on linux get_priority never fails; before any set_priority it
\* returns the niceness the thread inherited; after a successful
\* set_priority(p) the next get_priority returns Ok of p brought into
\* -20 .. 19, so Ok(p) for every p of that range, HIGH_PRI = -1 included; a
\* set_priority fails only with permission-denied, only when it asks for a
\* niceness below the current one, and then the niceness is unchanged and the
\* next get_priority returns it. On other builds set_priority always returns
\* Ok and get_priority always returns Ok(0).
C11_PriorityContractPerPlatform ==
    IF th_env.linux
      THEN /\ HasLast("get") => IsOk(LastCall.res, LastCall.before)
           /\ (HasLast("get") /\ ~th_set_called)
                 => IsOk(LastCall.res, th_env.inherited)
           /\ (HasPrev("set") /\ PrevCall.res.tag = "Ok" /\ HasLast("get"))
                 => /\ IsOk(LastCall.res, clamp_nice(PrevCall.pri))
                    /\ (PrevCall.pri \in MIN_NICE .. MAX_NICE
                          => IsOk(LastCall.res, PrevCall.pri))
           /\ (HasLast("set") /\ LastCall.res.tag # "Ok")
                 => /\ IsPermissionDenied(LastCall.res)
                    /\ clamp_nice(LastCall.pri) < LastCall.before
                    /\ th_nice = LastCall.before
           /\ (HasPrev("set") /\ PrevCall.res.tag # "Ok" /\ HasLast("get"))
                 => IsOk(LastCall.res, PrevCall.before)
      ELSE /\ HasLast("set") => LastCall.res.tag = "Ok"
           /\ HasLast("get") => IsOk(LastCall.res, 0)

\* A thread on linux whose set_priority(HIGH_PRI) succeeded and whose next
\* get_priority returned Ok(-1).
C11_Witness ==
    /\ th_env.linux
    /\ HasPrev("set") /\ PrevCall.pri = HIGH_PRI /\ PrevCall.res.tag = "Ok"
    /\ PrevCall.before # HIGH_PRI
    /\ HasLast("get") /\ IsOk(LastCall.res, HIGH_PRI)

\* The names lines 229-231 and lines 244-246 spell out.
PrefixedName(mode) ==
    CASE mode = "Normal" -> <<"k", "N", "o", "r", "m", "a", "l">>
      [] mode = "ReadOnly" -> <<"k", "R", "e", "a", "d", "O", "n", "l", "y">>
      [] mode = "Fallback" -> <<"k", "F", "a", "l", "l", "b", "a", "c", "k">>

TextName(mode) ==
    CASE mode = "Normal" -> <<"n", "o", "r", "m", "a", "l">>
      [] mode = "ReadOnly" -> <<"r", "e", "a", "d", "-", "o", "n", "l", "y">>
      [] mode = "Fallback" -> <<"f", "a", "l", "l", "b", "a", "c", "k">>

\* C12: a variant converted into a ConfigValue is the BlobRunMode slot
\* holding kNormal, kReadOnly or kFallback, and converting that back returns
\* the variant; converting out of a ConfigValue of another slot, or of the
\* BlobRunMode slot with any other string, panics; from_str returns Ok for
\* normal, read-only and fallback and Err for every other string.
C12_ConfigValueRoundTrip ==
    /\ (c_origin = "val" /\ c_steps >= 1)
          => /\ c_doc.kind = "ConfigValue" /\ c_doc.slot = "BlobRunMode"
             /\ c_doc.s = PrefixedName(c_val0)
    /\ (c_origin = "val" /\ c_steps = 2) => c_val = Ok(c_val0)
    /\ (c_origin = "doc" /\ c_doc0.kind = "ConfigValue" /\ c_steps >= 1)
          => IF /\ c_doc0.slot = "BlobRunMode"
                /\ \E mode \in BlobRunMode : c_doc0.s = PrefixedName(mode)
               THEN /\ c_val.tag = "Ok"
                    /\ c_doc0.s = PrefixedName(c_val.v)
               ELSE c_val = Panic
    /\ (c_origin = "doc" /\ c_doc0.kind = "str" /\ c_steps >= 1)
          => IF \E mode \in BlobRunMode : c_doc0.s = TextName(mode)
               THEN /\ c_val.tag = "Ok"
                    /\ c_doc0.s = TextName(c_val.v)
               ELSE c_val.tag = "Err"

\* ReadOnly went into a ConfigValue as kReadOnly and came back as ReadOnly.
C12_Witness ==
    /\ c_origin = "val" /\ c_val0 = "ReadOnly" /\ c_steps = 2
    /\ c_doc = ConfigValue("BlobRunMode", PrefixedName("ReadOnly"))
    /\ c_val = Ok("ReadOnly")

\* C13: a check made while the fail point is configured returns TRUE whatever
\* usage was recorded and whatever mark was registered; a check made while
\* it is not configured returns the comparison of the two; and after any
\* check the counter and the mark still hold what was last recorded and
\* registered, so the check modifies neither.
C13_FailPointForcesTrue ==
    /\ GLOBAL_MEMORY_USAGE = last_recorded
    /\ MEMORY_USAGE_HIGH_WATER = last_registered
    /\ \A t \in Readers :
          last_op = t =>
              ret[t] = IF fp_active THEN TRUE
                       ELSE (last_recorded >= last_registered)

\* With the fail point configured, a check returned TRUE at usage 0 and the
\* default mark, while the other reader's check, made before the fail point
\* was configured, had returned FALSE.
C13_Witness ==
    /\ fp_active
    /\ \E t \in Readers :
          /\ last_op = t /\ ret[t]
          /\ GLOBAL_MEMORY_USAGE = 0 /\ MEMORY_USAGE_HIGH_WATER = U64_MAX
    /\ \E t \in Readers : pc[t] = "ret" /\ ~ret[t]

====
